---- MODULE Spec2Model ----
(***************************************************************************)
(* Faucet front end (App component): the token-address debounce, the       *)
(* balance / decimals fetchers, the mint and claim flows and the           *)
(* copy-zero-address button, as a state machine over the component state.  *)
(*                                                                         *)
(* Time is counted in ticks, DebounceTicks of them in the debounce delay.   *)
(* A timer fires when its delay has elapsed (setTimeout's nominal delay);  *)
(* the calls on the chain clients answer at any later moment, with a value *)
(* or by throwing.  The browser is assumed to provide window.ethereum.     *)
(*                                                                         *)
(* Spec is the whole component.  Its state space is the product of the     *)
(* form, the debounce, the fetchers, the flows and the copy button, so the *)
(* properties are checked under three specifications of the same actions   *)
(* that each let the environment do part of what it can:                   *)
(*   SpecBalance  the token-address field, the clock, the chain, unmount   *)
(*   SpecTx       the whole form, mint / claim, the clock, the wallet and  *)
(*                the chain, unmount                                       *)
(*   SpecDirect   fetchBalance / fetchTokenDecimals called with any        *)
(*                argument, the chain, unmount                             *)
(***************************************************************************)
EXTENDS Integers, Sequences, FiniteSets, TLC

\* ---------------------------------------------------------------- bounds
MaxEdits == 3      \* token-address changes in one run
MaxTxEdits == 1    \* token-address changes in one run with mint / claim
DebounceTicks == 5 \* ticks of the clock in one debounce delay
MaxFlows == 2      \* mint / claim clicks in one run
MaxCopies == 1     \* copy-button clicks in one run
MaxDirect == 2     \* direct calls of the fetchers in one run
MaxPending == 2    \* fetcher invocations suspended at one time

\* ------------------------------------------------------------- constants
DebounceMs == 500
CopyMs == 2000
DefaultDecimals == 18
NaN == -1          \* Number(x) of a non-numeric x
Null == -1         \* balance === null
NoTimer == 0       \* debounceTimerRef.current === null (falsy)

\* the delay of the copy button's timer, in ticks
CopyTicks == (CopyMs * DebounceTicks) \div DebounceMs

zeroAddress == "0x0000"
faucetAddress == "0x8A38"
TokenA == "0xa1a1"
TokenB == "0xB2B2"
UserAddress == "0xc0c0"
BadAddress == "0xzz"

\* what the user can put in the token-address field
TokenInputs == {"", BadAddress, zeroAddress, TokenA, TokenB}

\* viem isAddress: 0x followed by 40 hex digits
isAddress(a) == a \in {zeroAddress, faucetAddress, TokenA, TokenB, UserAddress}

\* String.prototype.toLowerCase on the addresses of the model
toLowerCase(a) ==
  CASE a = TokenB -> "0xb2b2"
    [] a = faucetAddress -> "0x8a38"
    [] OTHER -> a

\* !tokenAddr || !isAddress(tokenAddr)
InvalidAddr(a) == a = "" \/ ~isAddress(a)

\* tokenAddr.toLowerCase() === zeroAddress.toLowerCase()
IsZero(a) == toLowerCase(a) = toLowerCase(zeroAddress)

\* isZeroAddress of the render: tokenAddress && isAddress(..) && lower-case equal
isZeroAddressOf(a) == a # "" /\ isAddress(a) /\ IsZero(a)

\* ------------------------------------------------------------ the chain
\* decimals() of the ERC20 contracts
ChainDecimals(t) == IF t = TokenA THEN 6 ELSE 0
\* native balance of an account
ChainNativeBalance(holder) == IF holder = faucetAddress THEN 50 ELSE 3
\* Faucet.getTokenBalance(token, holder)
ChainTokenBalance(t, holder) ==
  IF holder = faucetAddress
    THEN (IF t = TokenA THEN 100 ELSE 200)
    ELSE (IF t = TokenA THEN 7 ELSE 9)

\* What readContract hands back for decimals(): a number, or a value that is
\* not one (num = FALSE).  Number(v) of the latter is NaN.
Number(v) == IF v.num THEN v.v ELSE NaN

\* ------------------------------------------------- strings as characters
\* The amount field is a sequence of one-character strings, so that the
\* conversions below work on the text as the JavaScript functions do.
Digit == {"0", "1", "2", "3", "4", "5", "6", "7", "8", "9"}

DigitVal(c) ==
  CASE c = "0" -> 0 [] c = "1" -> 1 [] c = "2" -> 2 [] c = "3" -> 3
    [] c = "4" -> 4 [] c = "5" -> 5 [] c = "6" -> 6 [] c = "7" -> 7
    [] c = "8" -> 8 [] c = "9" -> 9

DigitChar(n) ==
  CASE n = 0 -> "0" [] n = 1 -> "1" [] n = 2 -> "2" [] n = 3 -> "3"
    [] n = 4 -> "4" [] n = 5 -> "5" [] n = 6 -> "6" [] n = 7 -> "7"
    [] n = 8 -> "8" [] n = 9 -> "9"

Drop(s, n) == SubSeq(s, n + 1, Len(s))
Take(s, n) == SubSeq(s, 1, n)

RECURSIVE LeadDigits(_)
\* the number of digits s starts with
LeadDigits(s) ==
  IF s # <<>> /\ Head(s) \in Digit THEN 1 + LeadDigits(Tail(s)) ELSE 0

RECURSIVE Zeros(_)
Zeros(n) == IF n <= 0 THEN <<>> ELSE <<"0">> \o Zeros(n - 1)

RECURSIVE StripLeadingZeros(_)
StripLeadingZeros(s) ==
  IF s # <<>> /\ Head(s) = "0" THEN StripLeadingZeros(Tail(s)) ELSE s

RECURSIVE StripTrailingZeros(_)
StripTrailingZeros(s) ==
  IF s # <<>> /\ s[Len(s)] = "0" THEN StripTrailingZeros(Take(s, Len(s) - 1)) ELSE s

AllZeros(s) == \A i \in 1..Len(s) : s[i] = "0"

\* the first "." of s, or 0
DotAt(s) ==
  IF \E i \in 1..Len(s) : s[i] = "."
    THEN CHOOSE i \in 1..Len(s) : s[i] = "." /\ \A j \in 1..(i - 1) : s[j] # "."
    ELSE 0

\* length of the longest prefix of s that is an unsigned decimal literal
\* (digits, optional fraction, optional exponent); 0 when there is none
MantissaLen(s) ==
  LET i == LeadDigits(s)
      r == Drop(s, i)
      f == IF r # <<>> /\ Head(r) = "." THEN LeadDigits(Tail(r)) ELSE 0
  IN IF r # <<>> /\ Head(r) = "." /\ i + f > 0 THEN i + 1 + f ELSE i

ExponentLen(r) ==
  IF r # <<>> /\ Head(r) \in {"e", "E"}
    THEN LET t == Tail(r)
             sg == IF t # <<>> /\ Head(t) \in {"-", "+"} THEN 1 ELSE 0
             d == LeadDigits(Drop(t, sg))
         IN IF d > 0 THEN 1 + sg + d ELSE 0
    ELSE 0

DecimalLiteralLen(s) ==
  LET m == MantissaLen(s)
  IN IF m = 0 THEN 0 ELSE m + ExponentLen(Drop(s, m))

Unsigned(s) == IF s # <<>> /\ Head(s) \in {"-", "+"} THEN Tail(s) ELSE s

\* isNaN(s) of a string: Number(s) is NaN.  Number("") is 0.
isNaN(s) ==
  /\ s # <<>>
  /\ LET u == Unsigned(s) IN u = <<>> \/ DecimalLiteralLen(u) # Len(u)

\* parseFloat(s) <= 0: the longest numeric prefix exists (else NaN, and
\* NaN <= 0 is false) and is negative or has an all-zero mantissa
ParseFloatLeqZero(s) ==
  LET u == Unsigned(s)
      m == MantissaLen(u)
  IN /\ m > 0
     /\ \/ (s # <<>> /\ Head(s) = "-")
        \/ \A i \in 1..m : u[i] \in {"0", "."}

\* ------------------------------------------------------ viem parseUnits
RECURSIVE IncDigits(_)
\* the digit string of BigInt(s) + 1n, before normalisation
IncDigits(s) ==
  IF s = <<>> THEN <<"1">>
  ELSE IF s[Len(s)] = "9" THEN IncDigits(Take(s, Len(s) - 1)) \o <<"0">>
  ELSE Take(s, Len(s) - 1) \o <<DigitChar(DigitVal(s[Len(s)]) + 1)>>

\* `${BigInt(s)}` of a digit string: no leading zeros, "0" for none
BigIntStr(s) ==
  LET t == StripLeadingZeros(s) IN IF t = <<>> THEN <<"0">> ELSE t

\* String.prototype.padStart(n, '0')
PadStart(s, n) == Zeros(n - Len(s)) \o s

\* /^(-?)([0-9]*)\.?([0-9]*)$/.test(value)
ParseUnitsMatches(value) ==
  LET u == IF value # <<>> /\ Head(value) = "-" THEN Tail(value) ELSE value
      r == Drop(u, LeadDigits(u))
      r2 == IF r # <<>> /\ Head(r) = "." THEN Tail(r) ELSE r
  IN LeadDigits(r2) = Len(r2)

\* parseUnits(value, decimals): [ok |-> FALSE] when it throws, else the
\* decimal text of the BigInt it returns
parseUnits(value, decimals) ==
  IF ~ParseUnitsMatches(value) THEN [ok |-> FALSE, v |-> <<>>]
  ELSE
    LET negative == value # <<>> /\ Head(value) = "-"
        u == IF negative THEN Tail(value) ELSE value
        d == DotAt(u)
        integer0 == IF d = 0 THEN u ELSE Take(u, d - 1)
        fraction0 == IF d = 0 THEN <<"0">> ELSE Drop(u, d)
        fraction1 == StripTrailingZeros(fraction0)
        \* Math.round(Number(`.${fraction}`)) === 1
        roundUp0 == fraction1 # <<>> /\ DigitVal(Head(fraction1)) >= 5
        \* fraction.length > decimals (false for NaN)
        tooLong == decimals # NaN /\ decimals # 0 /\ Len(fraction1) > decimals
        left == Take(fraction1, decimals - 1)
        unit == fraction1[decimals]
        right == Drop(fraction1, decimals)
        rounded == DigitVal(unit) + (IF DigitVal(Head(right)) >= 5 THEN 1 ELSE 0)
        fraction2 ==
          IF rounded > 9
            THEN PadStart(BigIntStr(IncDigits(left)) \o <<"0">>, Len(left) + 1)
            ELSE left \o <<DigitChar(rounded)>>
        carry == Len(fraction2) > decimals
        integer ==
          IF decimals = 0
            THEN (IF roundUp0 THEN BigIntStr(IncDigits(integer0)) ELSE integer0)
          ELSE IF tooLong /\ carry THEN BigIntStr(IncDigits(integer0))
          ELSE integer0
        fraction ==
          IF decimals = 0 THEN <<>>
          ELSE IF tooLong
            THEN Take(IF carry THEN Tail(fraction2) ELSE fraction2, decimals)
          ELSE fraction1 \o Zeros(decimals - Len(fraction1))
        digits == integer \o fraction
    IN \* BigInt("-") is a SyntaxError; BigInt("") is 0n
       IF negative /\ digits = <<>> THEN [ok |-> FALSE, v |-> <<>>]
       ELSE IF negative /\ ~AllZeros(digits)
         THEN [ok |-> TRUE, v |-> <<"-">> \o BigIntStr(digits)]
       ELSE [ok |-> TRUE, v |-> BigIntStr(digits)]

\* ------------------------------------------------------------- the state
\* what the user can put in the receiver field
ReceiverInputs == {"", UserAddress}
\* what the number input (type="number") can hand to setAmount
AmountInputs == {<<>>, <<"0">>, <<"1", ".", "5">>, <<"1", "e", "5">>}

\* error messages of validateInputs and of the catch blocks
ErrToken == "token address invalid"
ErrReceiver == "receiver address invalid"
ErrAmount == "amount invalid"
ErrWallet == "connect wallet first"
ErrTx == "Transaction fail"
CopiedMsg == "zero address copied"
SuccessMsg(kind) == IF kind = "mint" THEN "Mint ok" ELSE "Claim ok"

VARIABLES
  \* useState of App
  tokenAddress, receiverAddress, amount, isMinting, isClaiming, error,
  success, txHash, txType, balance, isLoadingBalance, tokenDecimals,
  \* useAccount().address: "" while no wallet is connected
  connectedAddress,
  \* useRef and the timers of the window
  debounceTimerRef,   \* id of the last debounce timer set, NoTimer at first
  timers,             \* pending debounce timers: [id, remaining, addr]
  copyTimers,         \* pending timers of the copy button: remaining ticks
  mounted,            \* the component is mounted
  \* asynchronous functions suspended at an await
  fetches,            \* fetchBalance / fetchTokenDecimals invocations
  flows,              \* handleMint / handleClaim invocations
  \* counters of the inputs
  edits,              \* token-address changes so far (the last timer id)
  clicks,             \* mint / claim clicks so far
  copies,             \* copy clicks so far
  directs,            \* direct calls of the fetchers so far
  \* observation of the debounce
  sinceEdit,          \* ticks since the last token-address change (capped)
  burstEdits,         \* changes in the current burst: each < 500 ms after the last
  burstFires,         \* debounce fetches since the current burst of edits began
  \* what the last step did
  returned,           \* the fetcher invocation that returned in it, or NoFetch
  finished,           \* the mint / claim invocation that returned in it, or NoFlow
  fired               \* the debounce timer that fired in it, or NoFire

uiVars == <<tokenAddress, receiverAddress, amount, isMinting, isClaiming, error,
            success, txHash, txType, balance, isLoadingBalance, tokenDecimals>>
envVars == <<connectedAddress, debounceTimerRef, timers, copyTimers, mounted>>
asyncVars == <<fetches, flows>>
countVars == <<edits, clicks, copies, directs>>
obsVars == <<sinceEdit, burstEdits, burstFires>>
stepVars == <<returned, finished, fired>>
vars == <<uiVars, envVars, asyncVars, countVars, obsVars, stepVars>>

NoFetch ==
  [fn |-> "none", arg |-> "", origin |-> "none", owner |-> 0, pc |-> "none",
   calls |-> <<>>, loadSet |-> 0, loadCleared |-> 0, mountedAtStart |-> TRUE,
   ret |-> 0, failed |-> FALSE, threw |-> FALSE, resp |-> Null,
   setBalanceCalls |-> 0, stored |-> Null]

NoFlow ==
  [kind |-> "none", pc |-> "none", n |-> 0, tokenAddress |-> "",
   receiverAddress |-> "", amount |-> <<>>, account |-> "", decimals |-> 0,
   amountIn |-> <<>>, hash |-> "", flagSet |-> FALSE, calls |-> <<>>,
   fetched |-> 0, outcome |-> "none"]

NoFire == [yes |-> FALSE, addr |-> ""]

Init ==
  /\ tokenAddress = "" /\ receiverAddress = "" /\ amount = <<>>
  /\ isMinting = FALSE /\ isClaiming = FALSE
  /\ error = "" /\ success = "" /\ txHash = "" /\ txType = ""
  /\ balance = Null /\ isLoadingBalance = FALSE /\ tokenDecimals = DefaultDecimals
  /\ connectedAddress \in {"", UserAddress}
  /\ debounceTimerRef = NoTimer /\ timers = {} /\ copyTimers = <<>>
  /\ mounted = TRUE
  /\ fetches = <<>> /\ flows = <<>>
  /\ edits = 0 /\ clicks = 0 /\ copies = 0 /\ directs = 0
  /\ sinceEdit = DebounceTicks + 1 /\ burstEdits = 0 /\ burstFires = 0
  /\ returned = NoFetch /\ finished = NoFlow /\ fired = NoFire

\* a state setter of an unmounted component changes nothing
Set(old, new) == IF mounted THEN new ELSE old

RemoveAt(s, i) == Take(s, i - 1) \o Drop(s, i)

\* ----------------------------------------------------------- the fetchers
\* the calls on publicClient
GetBalanceCall(holder) ==
  [fn |-> "getBalance", address |-> holder, functionName |-> "", args |-> <<>>]
DecimalsCall(tokenAddr) ==
  [fn |-> "readContract", address |-> tokenAddr, functionName |-> "decimals",
   args |-> <<>>]
\* getTokenBalance asked for the connected user instead of the holder given
TokenBalanceCall_User(tokenAddr, holder) ==
  [fn |-> "readContract", address |-> faucetAddress,
   functionName |-> "getTokenBalance", args |-> <<tokenAddr, UserAddress>>]
TokenBalanceCall(tokenAddr, holder) ==
  [fn |-> "readContract", address |-> faucetAddress,
   functionName |-> "getTokenBalance", args |-> <<tokenAddr, holder>>]

\* what a call can answer: it throws, or it returns a value
Threw == [threw |-> TRUE, value |-> [num |-> FALSE, v |-> 0]]
Returned(n) == [threw |-> FALSE, value |-> [num |-> TRUE, v |-> n]]
ReturnedNonNumeric == [threw |-> FALSE, value |-> [num |-> FALSE, v |-> 0]]

\* the decimals query failed: it threw, or its result is not a number
DecimalsFailed(r) == r.threw \/ ~r.value.num

\* the answers of the chain to a call
DecimalsAnswers(c) == {Threw, Returned(ChainDecimals(c.address)), ReturnedNonNumeric}
BalanceAnswers(c) ==
  IF c.fn = "getBalance"
    THEN {Threw, Returned(ChainNativeBalance(c.address))}
    ELSE {Threw, Returned(ChainTokenBalance(c.args[1], c.args[2]))}

NewFetch(fn, tokenAddr, origin, owner) ==
  [NoFetch EXCEPT !.fn = fn, !.arg = tokenAddr, !.origin = origin,
                  !.owner = owner, !.mountedAtStart = mounted]

\* fetchTokenDecimals without the sentinel check of lines 76-79
fetchTokenDecimals_NoZero(tokenAddr) ==
  IF InvalidAddr(tokenAddr) THEN [done |-> TRUE, ret |-> 18, calls |-> <<>>]
  ELSE [done |-> FALSE, ret |-> 0, calls |-> <<DecimalsCall(tokenAddr)>>]

\* fetchTokenDecimals up to its first await: it has returned (done), or it
\* waits for readContract.  Every return is preceded by setTokenDecimals(ret).
fetchTokenDecimals(tokenAddr) ==
  IF InvalidAddr(tokenAddr) THEN [done |-> TRUE, ret |-> 18, calls |-> <<>>]
  ELSE IF IsZero(tokenAddr) THEN [done |-> TRUE, ret |-> 18, calls |-> <<>>]
  ELSE [done |-> FALSE, ret |-> 0, calls |-> <<DecimalsCall(tokenAddr)>>]

\* fetchTokenDecimals after readContract answered r: the value it sets and
\* returns (lines 87-93)
fetchTokenDecimalsResume(r) == IF r.threw THEN 18 ELSE Number(r.value)

\* fetchBalance without the native branch of lines 117-122
fetchBalanceAwait_NoNative(f0, tokenAddr) ==
  LET d == fetchTokenDecimals(tokenAddr) IN
  IF d.done THEN
    [f0 EXCEPT !.pc = "getTokenBalance", !.ret = d.ret,
               !.calls = <<TokenBalanceCall(tokenAddr, faucetAddress)>>]
  ELSE [f0 EXCEPT !.pc = "decimals", !.calls = d.calls]

\* the first await of fetchBalance for a valid address (lines 117-134)
fetchBalanceAwait(f0, tokenAddr) ==
  LET d == fetchTokenDecimals(tokenAddr) IN
  IF IsZero(tokenAddr) THEN
    [f0 EXCEPT !.pc = "getBalance", !.calls = <<GetBalanceCall(faucetAddress)>>]
  ELSE IF d.done THEN
    [f0 EXCEPT !.pc = "getTokenBalance", !.ret = d.ret,
               !.calls = <<TokenBalanceCall(tokenAddr, faucetAddress)>>]
  ELSE [f0 EXCEPT !.pc = "decimals", !.calls = d.calls]

\* fetchBalance without the validity check of lines 106-111
fetchBalance_NoCheck(tokenAddr, origin, owner) ==
  LET f0 == NewFetch("fetchBalance", tokenAddr, origin, owner)
      f1 == fetchBalanceAwait([f0 EXCEPT !.loadSet = 1], tokenAddr)
  IN /\ isLoadingBalance' = Set(isLoadingBalance, TRUE)
     /\ balance' = balance
     /\ tokenDecimals' =
          IF f1.pc = "getTokenBalance" THEN Set(tokenDecimals, f1.ret)
          ELSE tokenDecimals
     /\ fetches' = Append(fetches, f1)
     /\ returned' = NoFetch

\* fetchBalance(tokenAddr) up to its first await (lines 100-134)
fetchBalance(tokenAddr, origin, owner) ==
  LET f0 == NewFetch("fetchBalance", tokenAddr, origin, owner)
      f1 == fetchBalanceAwait([f0 EXCEPT !.loadSet = 1], tokenAddr)
  IN IF InvalidAddr(tokenAddr) THEN
       /\ balance' = Set(balance, Null)
       /\ isLoadingBalance' = Set(isLoadingBalance, FALSE)
       /\ tokenDecimals' = tokenDecimals
       /\ fetches' = fetches
       /\ returned' = [f0 EXCEPT !.pc = "done", !.loadCleared = 1,
                                 !.setBalanceCalls = 1, !.stored = Null]
     ELSE
       /\ isLoadingBalance' = Set(isLoadingBalance, TRUE)
       /\ balance' = balance
       /\ tokenDecimals' =
            IF f1.pc = "getTokenBalance" THEN Set(tokenDecimals, f1.ret)
            ELSE tokenDecimals
       /\ fetches' = Append(fetches, f1)
       /\ returned' = NoFetch

\* the finally block of the flow that awaited fetch f (lines 244-246, 288-290):
\* fetchBalance never throws, so the catch block is skipped
FinishOwner(f) ==
  IF f.origin = "flow" THEN
    LET i == CHOOSE j \in 1..Len(flows) : flows[j].n = f.owner
        fl == flows[i]
    IN /\ isMinting' = IF fl.kind = "mint" THEN Set(isMinting, FALSE) ELSE isMinting
       /\ isClaiming' = IF fl.kind = "claim" THEN Set(isClaiming, FALSE) ELSE isClaiming
       /\ flows' = RemoveAt(flows, i)
       /\ finished' = [fl EXCEPT !.pc = "done", !.outcome = "complete"]
  ELSE /\ UNCHANGED <<isMinting, isClaiming, flows>>
       /\ finished' = NoFlow

\* the balance query answered r, with the flag cleared at the end of the try
\* block instead of in a finally block
BalanceAnswered_NoFinally(f, r) ==
  [f EXCEPT !.pc = "done", !.threw = r.threw,
            !.resp = IF r.threw THEN Null ELSE r.value.v,
            !.stored = IF r.threw THEN Null ELSE r.value.v,
            !.setBalanceCalls = @ + 1,
            !.loadCleared = IF r.threw THEN @ ELSE @ + 1]

\* the balance query answered r: catch or setBalance, then finally
\* (lines 121, 135, 137-142)
BalanceAnswered(f, r) ==
  [f EXCEPT !.pc = "done", !.threw = r.threw,
            !.resp = IF r.threw THEN Null ELSE r.value.v,
            !.stored = IF r.threw THEN Null ELSE r.value.v,
            !.setBalanceCalls = @ + 1, !.loadCleared = @ + 1]

\* publicClient.getBalance answers fetch i (lines 118-122, 137-142)
GetBalanceReturns(i, r) ==
  LET f == fetches[i]
      g == BalanceAnswered(f, r)
  IN
  /\ f.pc = "getBalance"
  /\ r \in BalanceAnswers(f.calls[1])
  /\ balance' = Set(balance, g.stored)
  /\ tokenDecimals' = IF r.threw THEN tokenDecimals ELSE Set(tokenDecimals, 18)
  /\ isLoadingBalance' = IF g.loadCleared > 0 THEN Set(isLoadingBalance, FALSE)
                         ELSE isLoadingBalance
  /\ fetches' = RemoveAt(fetches, i)
  /\ returned' = g
  /\ FinishOwner(f)
  /\ fired' = NoFire
  /\ UNCHANGED <<tokenAddress, receiverAddress, amount, error, success, txHash,
                 txType, envVars, countVars, obsVars>>

\* readContract(decimals) answers fetch i (lines 82-94, then 129-134)
DecimalsReturns(i, r) ==
  LET f == fetches[i]
      ret == fetchTokenDecimalsResume(r)
  IN
  /\ f.pc = "decimals"
  /\ r \in DecimalsAnswers(f.calls[1])
  /\ tokenDecimals' = Set(tokenDecimals, ret)
  /\ balance' = balance
  /\ isLoadingBalance' = isLoadingBalance
  /\ IF f.fn = "fetchTokenDecimals" THEN
       /\ fetches' = RemoveAt(fetches, i)
       /\ returned' = [f EXCEPT !.pc = "done", !.ret = ret, !.failed = DecimalsFailed(r)]
     ELSE
       /\ fetches' = [fetches EXCEPT ![i] =
             [f EXCEPT !.pc = "getTokenBalance", !.ret = ret,
                       !.failed = DecimalsFailed(r),
                       !.calls = Append(@, TokenBalanceCall(f.arg, faucetAddress))]]
       /\ returned' = NoFetch
  /\ finished' = NoFlow /\ fired' = NoFire
  /\ UNCHANGED <<tokenAddress, receiverAddress, amount, isMinting, isClaiming, error,
                 success, txHash, txType, envVars, flows, countVars, obsVars>>

\* readContract(getTokenBalance) answers fetch i (lines 129-142)
TokenBalanceReturns(i, r) ==
  LET f == fetches[i]
      g == BalanceAnswered(f, r)
  IN
  /\ f.pc = "getTokenBalance"
  /\ r \in BalanceAnswers(f.calls[Len(f.calls)])
  /\ balance' = Set(balance, g.stored)
  /\ tokenDecimals' = tokenDecimals
  /\ isLoadingBalance' = IF g.loadCleared > 0 THEN Set(isLoadingBalance, FALSE)
                         ELSE isLoadingBalance
  /\ fetches' = RemoveAt(fetches, i)
  /\ returned' = g
  /\ FinishOwner(f)
  /\ fired' = NoFire
  /\ UNCHANGED <<tokenAddress, receiverAddress, amount, error, success, txHash,
                 txType, envVars, countVars, obsVars>>

\* ---------------------------------------------------------- the debounce
\* no clearTimeout: the timers stay as they are
ClearDebounce_NoClear(ts) == ts

\* clearTimeout(debounceTimerRef.current), guarded by its truthiness
ClearDebounce(ts) ==
  IF debounceTimerRef # NoTimer THEN {t \in ts : t.id # debounceTimerRef} ELSE ts

\* the effect run for the current tokenAddress returned a cleanup function
HasCleanup == ~InvalidAddr(tokenAddress)

\* an effect that returns no cleanup
EffectCleanup_None(ts) == ts

\* the cleanup function of the effect (lines 167-171)
EffectCleanup(ts) == IF HasCleanup THEN ClearDebounce(ts) ELSE ts

\* the body of the effect for the new address a (lines 149-164): the timers
\* it leaves, given those the cleanup left
EffectTimers(ts, a) ==
  IF InvalidAddr(a) THEN ClearDebounce(ts)
  ELSE ClearDebounce(ts) \cup {[id |-> edits + 1, remaining |-> DebounceTicks, addr |-> a]}

\* setTokenAddress whose effect also aborts the fetches in flight
SetTokenAddress_Abort(a) ==
  /\ mounted
  /\ a # tokenAddress
  /\ edits < MaxEdits
  /\ tokenAddress' = a
  /\ edits' = edits + 1
  /\ sinceEdit' = 0
  /\ burstEdits' = IF sinceEdit < DebounceTicks THEN burstEdits + 1 ELSE 1
  /\ burstFires' = IF sinceEdit < DebounceTicks THEN burstFires ELSE 0
  /\ timers' = EffectTimers(EffectCleanup(timers), a)
  /\ IF InvalidAddr(a) THEN
       /\ balance' = Null
       /\ isLoadingBalance' = FALSE
       /\ debounceTimerRef' = debounceTimerRef
     ELSE
       /\ balance' = balance
       /\ isLoadingBalance' = isLoadingBalance
       /\ debounceTimerRef' = edits + 1
  /\ fetches' = <<>>
  /\ returned' = NoFetch /\ finished' = NoFlow /\ fired' = NoFire
  /\ UNCHANGED <<receiverAddress, amount, isMinting, isClaiming, error, success,
                 txHash, txType, tokenDecimals, connectedAddress, copyTimers,
                 mounted, flows, clicks, copies, directs>>

\* setTokenAddress(a) with a new value, and the effect React then runs
\* (lines 148-172): the cleanup of the previous run, then the body
SetTokenAddress(a) ==
  /\ mounted
  /\ a # tokenAddress          \* React skips the render for an identical state
  /\ edits < MaxEdits
  /\ tokenAddress' = a
  /\ edits' = edits + 1
  /\ sinceEdit' = 0
  /\ burstEdits' = IF sinceEdit < DebounceTicks THEN burstEdits + 1 ELSE 1
  /\ burstFires' = IF sinceEdit < DebounceTicks THEN burstFires ELSE 0
  /\ timers' = EffectTimers(EffectCleanup(timers), a)
  /\ IF InvalidAddr(a) THEN
       /\ balance' = Null
       /\ isLoadingBalance' = FALSE
       /\ debounceTimerRef' = debounceTimerRef
     ELSE
       /\ balance' = balance
       /\ isLoadingBalance' = isLoadingBalance
       /\ debounceTimerRef' = edits + 1
  /\ returned' = NoFetch /\ finished' = NoFlow /\ fired' = NoFire
  /\ UNCHANGED <<receiverAddress, amount, isMinting, isClaiming, error, success,
                 txHash, txType, tokenDecimals, connectedAddress, copyTimers,
                 mounted, asyncVars, clicks, copies, directs>>

\* the debounce timer t fires: fetchBalance(tokenAddress) of its closure
DebounceTimerFires(t) ==
  /\ t \in timers
  /\ t.remaining = 0
  /\ Len(fetches) < MaxPending
  /\ timers' = timers \ {t}
  /\ fetchBalance(t.addr, "timer", 0)
  /\ burstFires' = burstFires + 1
  /\ fired' = [yes |-> TRUE, addr |-> t.addr]
  /\ finished' = NoFlow
  /\ UNCHANGED <<tokenAddress, receiverAddress, amount, isMinting, isClaiming, error,
                 success, txHash, txType, connectedAddress, debounceTimerRef,
                 copyTimers, mounted, flows, countVars, sinceEdit, burstEdits>>

\* the component is unmounted: React runs the cleanup of the effect
Unmount ==
  /\ mounted
  /\ mounted' = FALSE
  /\ timers' = EffectCleanup(timers)
  /\ returned' = NoFetch /\ finished' = NoFlow /\ fired' = NoFire
  /\ UNCHANGED <<uiVars, connectedAddress, debounceTimerRef, copyTimers, asyncVars,
                 countVars, obsVars>>

\* One tick passes.  A timer whose delay has elapsed fires before time moves on.
Tick ==
  /\ \A t \in timers : t.remaining > 0
  /\ \A i \in 1..Len(copyTimers) : copyTimers[i] > 0
  /\ \/ timers # {}
     \/ copyTimers # <<>>
     \/ sinceEdit <= DebounceTicks
  /\ timers' = {[t EXCEPT !.remaining = @ - 1] : t \in timers}
  /\ copyTimers' = [i \in 1..Len(copyTimers) |-> copyTimers[i] - 1]
  /\ sinceEdit' = IF sinceEdit <= DebounceTicks THEN sinceEdit + 1 ELSE sinceEdit
  /\ returned' = NoFetch /\ finished' = NoFlow /\ fired' = NoFire
  /\ UNCHANGED <<uiVars, connectedAddress, debounceTimerRef, mounted, asyncVars,
                 countVars, burstEdits, burstFires>>

\* ------------------------------------------------------ the other inputs
SetReceiverAddress(r) ==
  /\ mounted
  /\ r # receiverAddress
  /\ receiverAddress' = r
  /\ returned' = NoFetch /\ finished' = NoFlow /\ fired' = NoFire
  /\ UNCHANGED <<tokenAddress, amount, isMinting, isClaiming, error, success, txHash,
                 txType, balance, isLoadingBalance, tokenDecimals, envVars,
                 asyncVars, countVars, obsVars>>

\* fillConnectedAddress (lines 293-297); the button shows while connected
fillConnectedAddress ==
  /\ mounted
  /\ connectedAddress # ""
  /\ receiverAddress # connectedAddress
  /\ receiverAddress' = connectedAddress
  /\ returned' = NoFetch /\ finished' = NoFlow /\ fired' = NoFire
  /\ UNCHANGED <<tokenAddress, amount, isMinting, isClaiming, error, success, txHash,
                 txType, balance, isLoadingBalance, tokenDecimals, envVars,
                 asyncVars, countVars, obsVars>>

SetAmount(v) ==
  /\ mounted
  /\ v # amount
  /\ amount' = v
  /\ returned' = NoFetch /\ finished' = NoFlow /\ fired' = NoFire
  /\ UNCHANGED <<tokenAddress, receiverAddress, isMinting, isClaiming, error, success,
                 txHash, txType, balance, isLoadingBalance, tokenDecimals, envVars,
                 asyncVars, countVars, obsVars>>

\* the copy button (lines 354-361)
CopyZeroAddress ==
  /\ mounted
  /\ copies < MaxCopies
  /\ txHash = ""               \* with a hash shown the click only writes the clipboard
  /\ copies' = copies + 1
  /\ success' = CopiedMsg
  /\ copyTimers' = Append(copyTimers, CopyTicks)
  /\ returned' = NoFetch /\ finished' = NoFlow /\ fired' = NoFire
  /\ UNCHANGED <<tokenAddress, receiverAddress, amount, isMinting, isClaiming, error,
                 txHash, txType, balance, isLoadingBalance, tokenDecimals,
                 connectedAddress, debounceTimerRef, timers, mounted, asyncVars,
                 edits, clicks, directs, obsVars>>

\* its timer: () => setSuccess("") (line 359)
CopyTimerFires(i) ==
  /\ i \in 1..Len(copyTimers)
  /\ copyTimers[i] = 0
  /\ copyTimers' = RemoveAt(copyTimers, i)
  /\ success' = Set(success, "")
  /\ returned' = NoFetch /\ finished' = NoFlow /\ fired' = NoFire
  /\ UNCHANGED <<tokenAddress, receiverAddress, amount, isMinting, isClaiming, error,
                 txHash, txType, balance, isLoadingBalance, tokenDecimals,
                 connectedAddress, debounceTimerRef, timers, mounted, asyncVars,
                 countVars, obsVars>>

\* ------------------------------------------------------- mint and claim
\* createWalletClient({transport: custom(window.ethereum)}) returns a client
\* object, connected account or not: !walletClient is false
walletClient == TRUE

\* validateInputs (lines 174-198): the error it sets, "" when it returns true
validateInputs ==
  IF InvalidAddr(tokenAddress) THEN ErrToken
  ELSE IF InvalidAddr(receiverAddress) THEN ErrReceiver
  ELSE IF amount = <<>> \/ isNaN(amount) \/ ParseFloatLeqZero(amount) THEN ErrAmount
  ELSE IF ~walletClient THEN ErrWallet
  ELSE ""

WriteCall(kind, token, receiver, amountIn, account) ==
  [fn |-> "writeContract", address |-> faucetAddress, functionName |-> kind,
   args |-> <<token, receiver, amountIn>>, account |-> account]
ReceiptCall(hash) ==
  [fn |-> "waitForTransactionReceipt", address |-> "", functionName |-> "",
   args |-> <<hash>>, account |-> ""]

\* the hash the wallet returns for the n-th submission
HashOf(n) == IF n = 1 THEN "0xh1" ELSE IF n = 2 THEN "0xh2" ELSE "0xh3"

\* buttons without the disabled attribute
ButtonEnabled_Always == TRUE

\* the Mint / Claim button can be clicked (disabled={isMinting || isClaiming})
ButtonEnabled == ~(isMinting \/ isClaiming)

\* a try block with a finally but no catch: the error is not shown
CatchFinally_NoCatch(fl, outcome) ==
  /\ error' = error
  /\ isMinting' = IF fl.kind = "mint" THEN Set(isMinting, FALSE) ELSE isMinting
  /\ isClaiming' = IF fl.kind = "claim" THEN Set(isClaiming, FALSE) ELSE isClaiming
  /\ finished' = [fl EXCEPT !.pc = "done", !.outcome = outcome]

\* the catch and finally blocks of flow fl (lines 241-246, 285-290)
CatchFinally(fl, outcome) ==
  /\ error' = Set(error, ErrTx)
  /\ isMinting' = IF fl.kind = "mint" THEN Set(isMinting, FALSE) ELSE isMinting
  /\ isClaiming' = IF fl.kind = "claim" THEN Set(isClaiming, FALSE) ELSE isClaiming
  /\ finished' = [fl EXCEPT !.pc = "done", !.outcome = outcome]

\* handlers that leave the result of the previous transaction in place
ResetTx_Keep == UNCHANGED <<success, txHash, txType>>

\* the first lines of the handlers (lines 201-204, 250-253); setError("") is
\* overwritten by what follows
ResetTx == success' = "" /\ txHash' = "" /\ txType' = ""

\* handleMint / handleClaim up to the first await (lines 200-228, 249-272)
Handle(kind) ==
  LET e == validateInputs
      decimals == IF isZeroAddressOf(tokenAddress) THEN 18 ELSE tokenDecimals
      amountIn == parseUnits(amount, decimals)
      fl0 == [NoFlow EXCEPT !.kind = kind, !.n = clicks + 1,
                !.tokenAddress = tokenAddress, !.receiverAddress = receiverAddress,
                !.amount = amount, !.account = connectedAddress]
      fl1 == [fl0 EXCEPT !.flagSet = TRUE, !.decimals = decimals]
  IN
  /\ mounted
  /\ ButtonEnabled
  /\ clicks < MaxFlows
  /\ clicks' = clicks + 1
  /\ ResetTx
  /\ IF e # "" THEN
       \* validation failed: return before setIsMinting(true)
       /\ error' = e
       /\ flows' = flows
       /\ isMinting' = isMinting /\ isClaiming' = isClaiming
       /\ finished' = [fl0 EXCEPT !.pc = "done", !.outcome = "invalid"]
     ELSE IF ~amountIn.ok THEN
       \* parseUnits throws: the flag set is cleared again by finally
       /\ flows' = flows
       /\ CatchFinally(fl1, "parseFail")
     ELSE
       /\ error' = ""
       /\ isMinting' = IF kind = "mint" THEN TRUE ELSE isMinting
       /\ isClaiming' = IF kind = "claim" THEN TRUE ELSE isClaiming
       /\ flows' = Append(flows,
            [fl1 EXCEPT !.pc = "write", !.amountIn = amountIn.v,
               !.calls = <<WriteCall(kind, tokenAddress, receiverAddress,
                                     amountIn.v, connectedAddress)>>])
       /\ finished' = NoFlow
  /\ returned' = NoFetch /\ fired' = NoFire
  /\ UNCHANGED <<tokenAddress, receiverAddress, amount, balance, isLoadingBalance,
                 tokenDecimals, envVars, fetches, edits, copies, directs, obsVars>>

handleMint == Handle("mint")
handleClaim == Handle("claim")

\* what walletClient.writeContract can answer: without an account it throws
\* (AccountNotFoundError); with one the wallet signs or rejects
WriteAnswers(fl) ==
  IF fl.account = "" THEN {"threw"} ELSE {"threw", "hash"}

\* writeContract answers flow i (lines 221-240, 266-284 and the catch / finally)
WriteContractReturns(i, r) ==
  LET fl == flows[i]
      hash == HashOf(fl.n)
  IN
  /\ fl.pc = "write"
  /\ r \in WriteAnswers(fl)
  /\ IF r = "hash" THEN
       /\ txHash' = Set(txHash, hash)
       /\ txType' = Set(txType, fl.kind)
       /\ success' = Set(success, SuccessMsg(fl.kind))
       /\ error' = error
       /\ isMinting' = isMinting /\ isClaiming' = isClaiming
       /\ flows' = [flows EXCEPT ![i] =
            [fl EXCEPT !.pc = "receipt", !.hash = hash,
                       !.calls = Append(@, ReceiptCall(hash))]]
       /\ finished' = NoFlow
     ELSE
       /\ txHash' = txHash /\ txType' = txType /\ success' = success
       /\ flows' = RemoveAt(flows, i)
       /\ CatchFinally(fl, "writeFail")
  /\ returned' = NoFetch /\ fired' = NoFire
  /\ UNCHANGED <<tokenAddress, receiverAddress, amount, balance, isLoadingBalance,
                 tokenDecimals, envVars, fetches, countVars, obsVars>>

\* waitForTransactionReceipt answers flow i (lines 236-246, 280-290)
ReceiptReturns(i, confirmed) ==
  LET fl == flows[i] IN
  /\ fl.pc = "receipt"
  /\ confirmed \in BOOLEAN
  /\ UNCHANGED <<txHash, txType, success>>
  /\ IF confirmed THEN
       /\ Len(fetches) < MaxPending
       /\ fetchBalance(fl.tokenAddress, "flow", fl.n)
       /\ error' = error
       /\ IF InvalidAddr(fl.tokenAddress) THEN
            \* fetchBalance returned at once: the finally block
            /\ isMinting' = IF fl.kind = "mint" THEN Set(isMinting, FALSE) ELSE isMinting
            /\ isClaiming' = IF fl.kind = "claim" THEN Set(isClaiming, FALSE) ELSE isClaiming
            /\ flows' = RemoveAt(flows, i)
            /\ finished' = [fl EXCEPT !.pc = "done", !.fetched = @ + 1,
                                      !.outcome = "complete"]
          ELSE
            /\ isMinting' = isMinting /\ isClaiming' = isClaiming
            /\ flows' = [flows EXCEPT ![i] = [fl EXCEPT !.pc = "fetch", !.fetched = @ + 1]]
            /\ finished' = NoFlow
     ELSE
       \* the wait throws inside the try block: catch, then finally
       /\ flows' = RemoveAt(flows, i)
       /\ CatchFinally(fl, "receiptFail")
       /\ returned' = NoFetch
       /\ UNCHANGED <<balance, isLoadingBalance, tokenDecimals, fetches>>
  /\ fired' = NoFire
  /\ UNCHANGED <<tokenAddress, receiverAddress, amount, envVars, countVars, obsVars>>

\* ---------------------------------------------------------- direct calls
\* fetchBalance called with any argument
DirectFetchBalance(a) ==
  /\ directs < MaxDirect
  /\ Len(fetches) < MaxPending
  /\ directs' = directs + 1
  /\ fetchBalance(a, "direct", 0)
  /\ finished' = NoFlow /\ fired' = NoFire
  /\ UNCHANGED <<tokenAddress, receiverAddress, amount, isMinting, isClaiming, error,
                 success, txHash, txType, envVars, flows, edits, clicks, copies,
                 obsVars>>

\* fetchTokenDecimals called with any argument (lines 68-79)
DirectFetchTokenDecimals(a) ==
  LET f0 == NewFetch("fetchTokenDecimals", a, "direct", 0)
      d == fetchTokenDecimals(a)
  IN
  /\ directs < MaxDirect
  /\ Len(fetches) < MaxPending
  /\ directs' = directs + 1
  /\ IF d.done THEN
       /\ tokenDecimals' = Set(tokenDecimals, d.ret)
       /\ fetches' = fetches
       /\ returned' = [f0 EXCEPT !.pc = "done", !.ret = d.ret, !.calls = d.calls]
     ELSE
       /\ tokenDecimals' = tokenDecimals
       /\ fetches' = Append(fetches, [f0 EXCEPT !.pc = "decimals", !.calls = d.calls])
       /\ returned' = NoFetch
  /\ finished' = NoFlow /\ fired' = NoFire
  /\ UNCHANGED <<tokenAddress, receiverAddress, amount, isMinting, isClaiming, error,
                 success, txHash, txType, balance, isLoadingBalance, envVars, flows,
                 edits, clicks, copies, obsVars>>

\* -------------------------------------------------------------- the render
\* the balance line shows a value (lines 368-388)
BalanceShown == ~InvalidAddr(tokenAddress) /\ ~isLoadingBalance /\ balance # Null

\* the decimals of formatUnits(balance, tokenDecimals) and of the hint
\* (lines 380, 424)
DisplayDecimals == tokenDecimals

\* the decimals of parseUnits(amount, decimals) (lines 210, 258, 444)
ConversionDecimals == IF isZeroAddressOf(tokenAddress) THEN 18 ELSE tokenDecimals

\* the text of the amount preview (lines 438-452): none while the amount is
\* empty or the token address invalid, else the base units or the marker of
\* an invalid amount
NoPreview == [shown |-> FALSE, invalid |-> FALSE, text |-> <<>>]
AmountPreview ==
  LET p == parseUnits(amount, ConversionDecimals) IN
  IF amount = <<>> \/ InvalidAddr(tokenAddress) THEN NoPreview
  ELSE IF p.ok THEN [shown |-> TRUE, invalid |-> FALSE, text |-> p.v]
  ELSE [shown |-> TRUE, invalid |-> TRUE, text |-> <<>>]

\* ------------------------------------------------------------ the program
AnswerValues == {0, 3, 6, 7, 9, 50, 100, 200}
Answers == {Threw, ReturnedNonNumeric} \cup {Returned(n) : n \in AnswerValues}

Next ==
  \/ \E a \in TokenInputs : SetTokenAddress(a)
  \/ \E r \in ReceiverInputs : SetReceiverAddress(r)
  \/ fillConnectedAddress
  \/ \E v \in AmountInputs : SetAmount(v)
  \/ Tick
  \/ \E t \in timers : DebounceTimerFires(t)
  \/ \E i \in 1..Len(fetches) : \E r \in Answers : GetBalanceReturns(i, r)
  \/ \E i \in 1..Len(fetches) : \E r \in Answers : DecimalsReturns(i, r)
  \/ \E i \in 1..Len(fetches) : \E r \in Answers : TokenBalanceReturns(i, r)
  \/ handleMint
  \/ handleClaim
  \/ \E i \in 1..Len(flows) : \E r \in {"threw", "hash"} : WriteContractReturns(i, r)
  \/ \E i \in 1..Len(flows) : \E c \in BOOLEAN : ReceiptReturns(i, c)
  \/ CopyZeroAddress
  \/ \E i \in 1..Len(copyTimers) : CopyTimerFires(i)
  \/ Unmount

Spec == Init /\ [][Next]_vars

\* the token-address field, the clock and the chain
NextBalance ==
  \/ \E a \in TokenInputs : SetTokenAddress(a)
  \/ Tick
  \/ \E t \in timers : DebounceTimerFires(t)
  \/ \E i \in 1..Len(fetches) : \E r \in Answers : GetBalanceReturns(i, r)
  \/ \E i \in 1..Len(fetches) : \E r \in Answers : DecimalsReturns(i, r)
  \/ \E i \in 1..Len(fetches) : \E r \in Answers : TokenBalanceReturns(i, r)
  \/ Unmount

SpecBalance == Init /\ [][NextBalance]_vars

\* the form and mint / claim
NextTx ==
  \/ \E a \in TokenInputs : SetTokenAddress(a) /\ edits' <= MaxTxEdits
  \/ \E r \in ReceiverInputs : SetReceiverAddress(r)
  \/ fillConnectedAddress
  \/ \E v \in AmountInputs : SetAmount(v)
  \/ Tick
  \/ \E t \in timers : DebounceTimerFires(t)
  \/ \E i \in 1..Len(fetches) : \E r \in Answers : GetBalanceReturns(i, r)
  \/ \E i \in 1..Len(fetches) : \E r \in Answers : DecimalsReturns(i, r)
  \/ \E i \in 1..Len(fetches) : \E r \in Answers : TokenBalanceReturns(i, r)
  \/ handleMint
  \/ handleClaim
  \/ \E i \in 1..Len(flows) : \E r \in {"threw", "hash"} : WriteContractReturns(i, r)
  \/ \E i \in 1..Len(flows) : \E c \in BOOLEAN : ReceiptReturns(i, c)
  \/ Unmount

SpecTx == Init /\ [][NextTx]_vars

\* the fetchers called directly, with any argument
NextDirect ==
  \/ \E a \in TokenInputs : DirectFetchBalance(a)
  \/ \E a \in TokenInputs : DirectFetchTokenDecimals(a)
  \/ \E i \in 1..Len(fetches) : \E r \in Answers : GetBalanceReturns(i, r)
  \/ \E i \in 1..Len(fetches) : \E r \in Answers : DecimalsReturns(i, r)
  \/ \E i \in 1..Len(fetches) : \E r \in Answers : TokenBalanceReturns(i, r)
  \/ Unmount

SpecDirect == Init /\ [][NextDirect]_vars

\* a flow whose token address changes while it is in flight
MaxRefetchEdits == 2
MaxRefetchFlows == 1
RefetchTokens == {TokenA, TokenB}
NextRefetch ==
  \/ \E a \in RefetchTokens : SetTokenAddress(a) /\ edits' <= MaxRefetchEdits
  \/ fillConnectedAddress
  \/ SetAmount(<<"1", ".", "5">>)
  \/ Tick
  \/ \E t \in timers : DebounceTimerFires(t)
  \/ \E i \in 1..Len(fetches) : \E r \in Answers : DecimalsReturns(i, r)
  \/ \E i \in 1..Len(fetches) : \E r \in Answers : TokenBalanceReturns(i, r)
  \/ handleMint /\ clicks' <= MaxRefetchFlows
  \/ handleClaim /\ clicks' <= MaxRefetchFlows
  \/ \E i \in 1..Len(flows) : \E r \in {"threw", "hash"} : WriteContractReturns(i, r)
  \/ \E i \in 1..Len(flows) : \E c \in BOOLEAN : ReceiptReturns(i, c)
  \/ Unmount

SpecRefetch == Init /\ [][NextRefetch]_vars

\* the amount field with every kind of text, and mint / claim
AmountTexts == AmountInputs \cup {<<"a", "b", "c">>}
AmountTokens == {TokenA, zeroAddress}
NextAmount ==
  \/ \E a \in AmountTokens : SetTokenAddress(a) /\ edits' <= MaxTxEdits
  \/ fillConnectedAddress
  \/ \E v \in AmountTexts : SetAmount(v)
  \/ Tick
  \/ \E t \in timers : DebounceTimerFires(t)
  \/ \E i \in 1..Len(fetches) : \E r \in Answers : GetBalanceReturns(i, r)
  \/ \E i \in 1..Len(fetches) : \E r \in Answers : DecimalsReturns(i, r)
  \/ \E i \in 1..Len(fetches) : \E r \in Answers : TokenBalanceReturns(i, r)
  \/ handleMint
  \/ handleClaim
  \/ \E i \in 1..Len(flows) : \E r \in {"threw", "hash"} : WriteContractReturns(i, r)
  \/ \E i \in 1..Len(flows) : \E c \in BOOLEAN : ReceiptReturns(i, c)
  \/ Unmount

SpecAmount == Init /\ [][NextAmount]_vars

\* the copy button and its timer, with mint / claim of the native asset
NextCopy ==
  \/ SetTokenAddress(zeroAddress) /\ edits' <= MaxTxEdits
  \/ fillConnectedAddress
  \/ SetAmount(<<"1", ".", "5">>)
  \/ Tick
  \/ \E t \in timers : DebounceTimerFires(t)
  \/ \E i \in 1..Len(fetches) : \E r \in Answers : GetBalanceReturns(i, r)
  \/ handleMint
  \/ handleClaim
  \/ \E i \in 1..Len(flows) : \E r \in {"threw", "hash"} : WriteContractReturns(i, r)
  \/ \E i \in 1..Len(flows) : \E c \in BOOLEAN : ReceiptReturns(i, c)
  \/ CopyZeroAddress
  \/ \E i \in 1..Len(copyTimers) : CopyTimerFires(i)
  \/ Unmount

SpecCopy == Init /\ [][NextCopy]_vars

\* ============================================================ properties
InFlight == {fetches[i] : i \in 1..Len(fetches)}
\* the invocations of fetcher fn that the state shows: suspended, or returned
\* in the last step
Invocations(fn) == {f \in InFlight \cup {returned} : f.fn = fn}
ValidToken(a) == ~InvalidAddr(a) /\ ~IsZero(a)

\* C1: in a burst of token-address changes, each less than the debounce delay
\* after the one before, at most one balance fetch is fired by the timer; it
\* fires exactly DebounceTicks after the last change, with the address that
\* change set; and once more than the delay has passed since a change that
\* left a valid address (component still mounted), exactly one has fired.
C1_DebounceOneFetch ==
  /\ burstFires <= 1
  /\ fired.yes =>
       /\ sinceEdit = DebounceTicks
       /\ fired.addr = tokenAddress
       /\ burstFires = 1
  /\ (mounted /\ ~InvalidAddr(tokenAddress) /\ sinceEdit > DebounceTicks) =>
       burstFires = 1

\* three changes in one burst, then the fetch of the last one
C1_Witness ==
  /\ fired.yes
  /\ burstEdits = 3
  /\ fired.addr = TokenB

\* C2: after teardown no debounce timer is pending, none fires, and no
\* fetch started by a timer began after the teardown.
C2_TeardownCancelsTimer ==
  /\ ~mounted => (timers = {} /\ ~fired.yes)
  /\ \A f \in InFlight : f.origin = "timer" => f.mountedAtStart

\* unmounted while the timer was pending; its delay has passed, nothing fired
C2_Witness ==
  /\ ~mounted
  /\ ~InvalidAddr(tokenAddress)
  /\ sinceEdit > DebounceTicks
  /\ burstFires = 0

\* C3: an invocation of fetchBalance has not cleared the loading flag while
\* it is suspended, and has cleared it exactly once when it returns, on the
\* early return, on success and on failure; the flag is then false.
C3_LoadingClearedOnce ==
  /\ \A f \in InFlight : f.fn = "fetchBalance" => f.loadCleared = 0
  /\ returned.fn = "fetchBalance" =>
       /\ returned.loadCleared = 1
       /\ mounted => isLoadingBalance = FALSE

\* a failed query returned while another invocation is still suspended
C3_Witness ==
  /\ returned.fn = "fetchBalance"
  /\ returned.threw
  /\ mounted
  /\ Len(fetches) = 1

\* C4: fetchBalance with an empty or invalid address sets balance to null,
\* clears the loading flag without ever setting it, and issues no call.
C4_InvalidAddressNoCall ==
  /\ \A f \in InFlight : f.fn = "fetchBalance" => ~InvalidAddr(f.arg)
  /\ (returned.fn = "fetchBalance" /\ InvalidAddr(returned.arg)) =>
       /\ returned.calls = <<>>
       /\ returned.loadSet = 0
       /\ returned.loadCleared = 1
       /\ returned.setBalanceCalls = 1
       /\ returned.stored = Null
       /\ mounted => (balance = Null /\ isLoadingBalance = FALSE)

\* called with a malformed address while a fetch for a token is suspended
C4_Witness ==
  /\ returned.fn = "fetchBalance"
  /\ returned.arg = BadAddress
  /\ mounted
  /\ \E f \in InFlight : f.fn = "fetchBalance" /\ f.loadSet = 1

\* C5: fetchBalance with the zero address issues one call only, getBalance
\* of the faucet address, and on success stores that balance and sets the
\* decimals to 18.
C5_NativeBalanceOfFaucet ==
  /\ \A f \in Invocations("fetchBalance") :
       (~InvalidAddr(f.arg) /\ IsZero(f.arg)) =>
         /\ Len(f.calls) = 1
         /\ f.calls[1].fn = "getBalance"
         /\ f.calls[1].address = faucetAddress
  /\ (returned.fn = "fetchBalance" /\ IsZero(returned.arg) /\ ~returned.threw) =>
       /\ returned.stored = ChainNativeBalance(faucetAddress)
       /\ mounted => (tokenDecimals = 18 /\ balance = ChainNativeBalance(faucetAddress))

\* the native fetch succeeds after a token fetch had set 6 decimals
C5_Witness ==
  /\ returned.fn = "fetchBalance"
  /\ returned.arg = zeroAddress
  /\ ~returned.threw
  /\ mounted
  /\ \E f \in InFlight : f.pc = "getTokenBalance" /\ f.ret = 6

\* C6: fetchBalance with a valid token T first asks decimals() of T alone,
\* and only after the answer asks the faucet getTokenBalance(T, faucet); on
\* success it stores the value returned, the faucet's holding of T; on
\* failure of the query it stores null.
C6_TokenBalanceOfFaucet ==
  /\ \A f \in Invocations("fetchBalance") : ValidToken(f.arg) =>
       /\ Len(f.calls) = IF f.pc = "decimals" THEN 1 ELSE 2
       /\ f.calls[1].fn = "readContract"
       /\ f.calls[1].functionName = "decimals"
       /\ f.calls[1].address = f.arg
       /\ f.pc \in {"getTokenBalance", "done"} =>
            /\ f.calls[2].fn = "readContract"
            /\ f.calls[2].functionName = "getTokenBalance"
            /\ f.calls[2].address = faucetAddress
            /\ f.calls[2].args = <<f.arg, faucetAddress>>
  /\ (returned.fn = "fetchBalance" /\ ValidToken(returned.arg)) =>
       IF returned.threw
         THEN /\ returned.stored = Null
              /\ mounted => balance = Null
         ELSE /\ returned.stored = returned.resp
              /\ returned.resp = ChainTokenBalance(returned.arg, faucetAddress)
              /\ returned.resp # ChainTokenBalance(returned.arg, UserAddress)
              /\ mounted => balance = ChainTokenBalance(returned.arg, faucetAddress)

\* the balance of TokenA held by the faucet is stored
C6_Witness ==
  /\ returned.fn = "fetchBalance"
  /\ returned.arg = TokenA
  /\ ~returned.threw
  /\ mounted
  /\ balance = 100

\* C7: fetchTokenDecimals with an empty, invalid or zero address returns 18
\* at once and issues no call.
C7_DecimalsDefaultNoCall ==
  /\ \A f \in InFlight : f.fn = "fetchTokenDecimals" => ValidToken(f.arg)
  /\ (returned.fn = "fetchTokenDecimals" /\ ~ValidToken(returned.arg)) =>
       /\ returned.ret = 18
       /\ returned.calls = <<>>
       /\ mounted => tokenDecimals = 18

\* called with the zero address after a token had set other decimals
C7_Witness ==
  /\ returned.fn = "fetchTokenDecimals"
  /\ returned.arg = zeroAddress
  /\ mounted
  /\ directs = 2

\* C8: for a valid token, whenever the decimals query fails (it throws, or
\* answers something that is not a number) fetchTokenDecimals returns 18 and
\* sets the stored decimals to 18.
C8_DecimalsFailureGives18 ==
  /\ \A f \in InFlight \cup {returned} :
       (ValidToken(f.arg) /\ f.failed) => f.ret = 18
  /\ (returned.fn = "fetchTokenDecimals" /\ returned.failed /\ mounted) =>
       tokenDecimals = 18

\* the amounts of AmountInputs that are positive finite numbers
PositiveAmounts == {<<"1", ".", "5">>, <<"1", "e", "5">>}

\* a precondition of the flows fails for the inputs flow fl read
PreconditionFails(fl) ==
  \/ InvalidAddr(fl.tokenAddress)
  \/ InvalidAddr(fl.receiverAddress)
  \/ fl.amount \notin PositiveAmounts
  \/ fl.account = ""

\* C9: a mint or claim whose precondition fails (token or receiver address
\* invalid, amount not a positive finite number, no wallet connected) sets an
\* error and returns at once: it never sets the in-flight flag and issues no
\* call, so it is never suspended.
C9_PreconditionAborts ==
  /\ \A i \in 1..Len(flows) : ~PreconditionFails(flows[i])
  /\ (finished.pc = "done" /\ PreconditionFails(finished)) =>
       /\ finished.outcome = "invalid"
       /\ ~finished.flagSet
       /\ finished.calls = <<>>
       /\ error # ""

\* C10: when writeContract fails the flow sets the failure message and leaves
\* no transaction hash, kind or success indicator; it has made no call but
\* writeContract and started no balance fetch.
C10_SubmitFailureClean ==
  finished.outcome = "writeFail" =>
    /\ mounted => error = ErrTx
    /\ txHash = "" /\ txType = ""
    /\ ~(success # "" /\ txHash # "")
    /\ success \notin {SuccessMsg("mint"), SuccessMsg("claim")}
    /\ Len(finished.calls) = 1
    /\ finished.calls[1].fn = "writeContract"
    /\ finished.fetched = 0
    /\ \A f \in InFlight : f.owner # finished.n

\* the wallet rejects the second submission, after a first one
C10_Witness ==
  /\ finished.outcome = "writeFail"
  /\ finished.account # ""
  /\ finished.n = 2
  /\ mounted

C15_StaleOverwrites ==
  [][/\ tokenAddress' # tokenAddress => fetches' = fetches
     /\ (returned'.fn = "fetchBalance" /\ mounted') => balance' = returned'.stored
     /\ \A i \in 1..Len(fetches) :
          (/\ Len(fetches') = Len(fetches)
           /\ fetches[i].pc = "decimals"
           /\ fetches'[i].pc = "getTokenBalance"
           /\ mounted') => tokenDecimals' = fetches'[i].ret]_vars

\* the fetch for TokenA resolves after the fetch for TokenB, the address in
\* the field, has resolved: balance and decimals are those of TokenA
C15_Witness ==
  /\ returned.fn = "fetchBalance"
  /\ ~returned.threw
  /\ returned.arg = TokenA
  /\ tokenAddress = TokenB
  /\ mounted
  /\ fetches = <<>> /\ timers = {}
  /\ burstFires = 1
  /\ balance = ChainTokenBalance(TokenA, faucetAddress)
  /\ tokenDecimals = ChainDecimals(TokenA)

\* C16: with a valid token address (and decimals that are a number) the
\* decimals that format the balance and the hint equal the decimals that
\* convert the amount.
C16_DecimalsMatch ==
  (mounted /\ ~InvalidAddr(tokenAddress) /\ tokenDecimals # NaN) =>
    DisplayDecimals = ConversionDecimals

\* the balance the faucet holds of asset a
FaucetBalanceOf(a) ==
  IF IsZero(a) THEN ChainNativeBalance(faucetAddress)
  ELSE ChainTokenBalance(a, faucetAddress)

\* C19: a balance shown is the balance fetched for the token address in the
\* field.
C19_BalanceOfCurrentAddress ==
  (mounted /\ BalanceShown) => balance = FaucetBalanceOf(tokenAddress)

\* C12: with the flows started by the buttons alone, at most one mint or
\* claim is in flight, the flag of the one in flight is set, the two flags
\* are never both set, and with none in flight (component mounted) no flag
\* is set, so the next flow starts only after the flag was cleared.
C12_OneFlowInFlight ==
  /\ Len(flows) <= 1
  /\ ~(isMinting /\ isClaiming)
  /\ \A i \in 1..Len(flows) :
       IF flows[i].kind = "mint" THEN isMinting ELSE isClaiming
  /\ (mounted /\ flows = <<>>) => (~isMinting /\ ~isClaiming)

\* a claim waits for its receipt, after a first flow has come and gone
C12_Witness ==
  /\ Len(flows) = 1
  /\ flows[1].n = 2
  /\ flows[1].kind = "claim"
  /\ flows[1].pc = "receipt"
  /\ isClaiming /\ ~isMinting

\* C17 (as stated): a flow that ends because the confirmation wait failed
\* has set no error indicator.
C17_WaitFailureUnhandled ==
  (finished.outcome = "receiptFail" /\ mounted) => error = ""

\* C17 (amended): a failure of the confirmation wait is caught by the flow:
\* the failure message is set and the in-flight flag cleared, the hash and
\* the kind recorded at submission stay, and no balance fetch is started.
C17_WaitFailureCaught ==
  finished.outcome = "receiptFail" =>
    /\ mounted =>
         /\ error = ErrTx
         /\ ~isMinting /\ ~isClaiming
         /\ txHash = finished.hash
         /\ txType = finished.kind
    /\ finished.hash # ""
    /\ Len(finished.calls) = 2
    /\ finished.calls[2].fn = "waitForTransactionReceipt"
    /\ finished.fetched = 0
    /\ \A f \in InFlight : f.owner # finished.n

\* the wait of a claim fails
C17_Witness ==
  /\ finished.outcome = "receiptFail"
  /\ finished.kind = "claim"
  /\ mounted

\* C18: a flow that submits for a token T other than the zero address
\* converted the amount with the decimals of T.
C18_DecimalsOfToken ==
  \A i \in 1..Len(flows) :
    ValidToken(flows[i].tokenAddress) =>
      flows[i].decimals = ChainDecimals(flows[i].tokenAddress)

\* C11: a flow whose submission succeeded has recorded the hash and the kind
\* and shows the success message while it waits for the receipt; when the
\* receipt arrives the flow starts one balance fetch, its only one, for the
\* token address that is in the field at that moment.
C11_RefetchCurrentAddress ==
  [][\A i \in 1..Len(flows) :
       /\ (Len(flows') = Len(flows) /\ flows'[i].pc = "receipt" /\ mounted') =>
            /\ txHash' = flows'[i].hash
            /\ txType' = flows'[i].kind
            /\ success' = SuccessMsg(flows'[i].kind)
       /\ (Len(flows') = Len(flows) /\ flows[i].pc = "receipt"
              /\ flows'[i].pc = "fetch") =>
            /\ Len(fetches') = Len(fetches) + 1
            /\ fetches'[Len(fetches')].origin = "flow"
            /\ fetches'[Len(fetches')].owner = flows[i].n
            /\ flows'[i].fetched = 1
            /\ fetches'[Len(fetches')].arg = tokenAddress']_vars

\* the text of the amount field that is no number at all
NotANumber == <<"a", "b", "c">>

\* C13: an amount that cannot be converted with the effective decimals shows
\* the invalid-amount marker in the preview, makes a flow end with the
\* invalid-amount error, and is never submitted; "abc" does not pass the
\* validation.
C13_InvalidAmountSurfaced ==
  /\ (amount # <<>> /\ ~InvalidAddr(tokenAddress)
        /\ ~parseUnits(amount, ConversionDecimals).ok) =>
       (AmountPreview.shown /\ AmountPreview.invalid)
  /\ \A i \in 1..Len(flows) : parseUnits(flows[i].amount, flows[i].decimals).ok
  /\ (finished.outcome = "parseFail" /\ mounted) => error = ErrAmount
  /\ (finished.pc = "done" /\ finished.amount = NotANumber) =>
       (finished.outcome = "invalid" /\ error # "" /\ finished.calls = <<>>)

\* C20: once a submission has succeeded, the hash and the success message
\* of that transaction stay until the next click on Mint or Claim.
C20_SuccessStays ==
  (mounted /\ txHash # "") => success = SuccessMsg(txType)

====
